---------------------------- MODULE Spec2Model ----------------------------
(***************************************************************************)
(* The offline installation pipeline of the Mushaf reader:                 *)
(* DownloadManager (src/services/DownloadManager.ts), its file system,     *)
(* the installed_mushafs catalog and the AsyncStorage flag store.          *)
(*                                                                         *)
(* An async method is modelled one action per suspension point: an action  *)
(* is the continuation that runs when the awaited promise settles, up to   *)
(* the next await.  The platform calls (expo-file-system, zip-archive,     *)
(* expo-sqlite, AsyncStorage) settle either way, chosen by the action.     *)
(***************************************************************************)
EXTENDS Integers, Sequences, FiniteSets, TLC

(***************************************************************************)
(* Bounds of the model.                                                    *)
(***************************************************************************)
\* pages_count of a Mushaf (604 or 610 in the catalog), scaled down: pages 1
\* and 2 are the 8-line pages, pages 3..PagesCount the 15-line pages.
PagesCount == 3
\* A transfer reports totalBytesWritten in Chunks equal parts of
\* totalBytesExpectedToWrite: the fractions are 0/Chunks .. Chunks/Chunks.
Chunks == 2
\* Entries of AVAILABLE_MUSHAFS taken into the model (ids 1..NumMushafs).
NumMushafs == 2
\* Readings of the clock that an installed_at may hold.
NumReadings == 2

\* TOTAL_PAGES of ReaderScreen (604 in the source), scaled down.
TOTAL_PAGES == 3
\* Pages past TOTAL_PAGES that currentPage is followed to.
MaxOvershoot == 1
\* Fetches of a page that the reader has pending together.
MaxFetches == 2
\* Digits typed in the go-to-page field.
MaxDigits == 2

MushafIds == 1..NumMushafs
Readings == 1..NumReadings
\* Calls in flight on the one DownloadManager: Tasks are the call slots, and
\* SeqTasks the slot used when calls are made one after the other.
Tasks == {1, 2}
SeqTasks == {1}
\* The Mushaf the one-after-the-other calls are about.
SeqIds == {1}

\* An optional value is <<>> (null, undefined, no file) or <<v>>.
Null == <<>>
Some(v) == <<v>>
Val(o) == o[1]

(***************************************************************************)
(* Percentages are kept exactly, as multiples of 1/Chunks percent, and     *)
(* byte counts as multiples of total_bytes / (10 * Chunks).                *)
(***************************************************************************)
Pct(n) == n * Chunks
TotalBytes == 10 * Chunks

(***************************************************************************)
(* The Mushaf descriptor and the paths built from it.                      *)
(***************************************************************************)
Mushaf(id) ==
    [id |-> id, name |-> <<"name", id>>, code |-> <<"code", id>>,
     pages_count |-> PagesCount, lines_per_page |-> 15]

mushafDir(id) == <<"mushafs", id>>

installedKey(id) == <<"mushaf", id, "installed">>
pathKey(id) == <<"mushaf", id, "path">>
StorageKeys == {installedKey(i) : i \in MushafIds} \cup {pathKey(i) : i \in MushafIds}

(***************************************************************************)
(* What the remote end may serve.                                          *)
(***************************************************************************)
\* Rows of page_lines a page must have.
RequiredLines(page) == IF page \in {1, 2} THEN 8 ELSE 15

GoodDb == [p \in 1..PagesCount |-> Some(RequiredLines(p))]
\* What SELECT COUNT(*) ... WHERE page_number = p yields on a layout database:
\* a count, or no result (getFirstAsync resolves null).  The databases served
\* are the good one and those that differ from it on a single page.
DbContents ==
    {GoodDb} \cup
    UNION {{[GoodDb EXCEPT ![p] = c] :
                c \in ({Some(8), Some(15), Null} \ {Some(RequiredLines(p))})} :
           p \in 1..PagesCount}

\* Files of fonts/common/: 1 is bismillah.ttf, 2 is surah_names.ttf.
AllCommon == {1, 2}
CommonZips == {AllCommon, {1}, {2}, {}}

\* Page fonts p<n>.ttf are named by n; 0 is a .ttf file that is no page's.
AllPages == 1..PagesCount
FontsZips ==
    {AllPages, AllPages \cup {0}} \cup {AllPages \ {p} : p \in AllPages}

\* What the three urls of one Mushaf serve: all good, one file with a
\* defect, or both archives lacking files that verifyIntegrity probes.
GoodRemote == [db |-> GoodDb, common |-> AllCommon, fonts |-> AllPages]
Remotes ==
    {[GoodRemote EXCEPT !.db = c] : c \in DbContents}
    \cup {[GoodRemote EXCEPT !.common = c] : c \in CommonZips}
    \cup {[GoodRemote EXCEPT !.fonts = c] : c \in FontsZips}
    \cup {[GoodRemote EXCEPT !.common = {1}, !.fonts = AllPages \ {1, PagesCount}]}

(***************************************************************************)
(* The file system under documentDirectory/mushafs/<id>/.  A file is Null  *)
(* (absent) or Some(content); a directory is the set of its files.         *)
(***************************************************************************)
NoDir ==
    [exists |-> FALSE, fonts |-> FALSE, db |-> Null, commonZip |-> Null,
     fontsZip |-> Null, common |-> {}, pages |-> {}]

\* The five paths verifyIntegrity probes, in the order of criticalFiles:
\* getInfoAsync(criticalFiles[i]).exists in directory tree d.
\* Mutant: criticalFiles listed with the two page fonts first.
criticalFileExistsFontsFirst(d, m, i) ==
    CASE i = 1 -> 1 \in d.pages
      [] i = 2 -> m.pages_count \in d.pages
      [] i = 3 -> d.db /= Null
      [] i = 4 -> 1 \in d.common
      [] i = 5 -> 2 \in d.common

criticalFileExists(d, m, i) ==
    CASE i = 1 -> d.db /= Null
      [] i = 2 -> 1 \in d.common
      [] i = 3 -> 2 \in d.common
      [] i = 4 -> 1 \in d.pages
      [] i = 5 -> m.pages_count \in d.pages
NumCriticalFiles == 5

(***************************************************************************)
(* Errors: what is thrown carries a message <<text, a, b>>.                *)
(***************************************************************************)
Err(text, a, b) == [message |-> <<text, a, b>>]
\* A rejection of a platform call (no space, no network, locked database ...).
PlatformErr(call) == Err(call, 0, 0)
\* `Echec du telechargement: ${url}`; the urls of a Mushaf are numbered 1..3.
DownloadErr(id, url) == Err("Echec du telechargement", id, url)
\* `Fichier manquant: ${filePath}`
MissingErr(id, i) == Err("Fichier manquant", id, i)
\* `Nombre de polices incorrect: attendu ${pages_count}, trouve ${length}`
CountErr(expected, found) == Err("Nombre de polices incorrect", expected, found)
\* `Page ${page} devrait avoir 8|15 lignes, mais a ${count} lignes`
LinesErr(page, count) == Err("devrait avoir N lignes", page, count)
\* SQLite's answer to a second row with the same PRIMARY KEY.
ConstraintErr(id) == Err("UNIQUE constraint failed: installed_mushafs.id", id, 0)

IsLinesErr(e) == e.message[1] = "devrait avoir N lignes"

VARIABLES
    remote,             \* id -> what the urls of the Mushaf serve
    fs,                 \* id -> directory tree of mushafs/<id>/
    catalog,            \* rows of installed_mushafs in mushaf_library.db
    storage,            \* AsyncStorage: key -> Null or Some(value)
    progressCallbacks,  \* DownloadManager.progressCallbacks: id -> Null or Some(task)
    task,               \* per call: the locals of downloadMushaf / deleteMushaf
    written,            \* per call: totalBytesWritten of the transfer in flight
    hist,               \* per call: what the caller has observed (history)
    installedOk,        \* id -> an install resolved and no deleteMushaf(id) since (history)
    readerScreen,       \* ReaderScreen: its state, its pending AsyncStorage calls
    pageRenderer        \* MushafPageRenderer: its state, its pending fetches

vars == <<remote, fs, catalog, storage, progressCallbacks, task, written, hist, installedOk,
          readerScreen, pageRenderer>>

(***************************************************************************)
(* The progress record of one installation (DownloadProgress).             *)
(* speed_mbps and eta_seconds are functions of the wall clock and are not  *)
(* modelled.                                                               *)
(***************************************************************************)
Statuses ==
    {"initializing", "downloading", "extracting", "verifying", "completed",
     "failed", "paused", "cancelled"}
TerminalStatuses == {"completed", "failed"}

\* Mutant: one progress record for the DownloadManager, that of its first
\* Mushaf, in place of one per call.
InitialProgressOfFirst(m) ==
    [mushaf_id |-> 1, status |-> "initializing", progress |-> 0,
     downloaded_bytes |-> 0, total_bytes |-> TotalBytes,
     current_step |-> "Initialisation...", error |-> Null]

InitialProgress(m) ==
    [mushaf_id |-> m.id, status |-> "initializing", progress |-> 0,
     downloaded_bytes |-> 0, total_bytes |-> TotalBytes,
     current_step |-> "Initialisation...", error |-> Null]

IdleTask ==
    [op |-> "none", id |-> 0, pc |-> "idle", progress |-> InitialProgress(Mushaf(0)),
     idx |-> 0, error |-> Null, outcome |-> "none", rejection |-> Null]

\* History of one call, as its caller sees it: the snapshots the callback got
\* from the step that reported last (in order), how many terminal snapshots
\* so far and whether one came after a terminal one, the step that raised and
\* what it raised, the durable writes the call made, how the removal of the
\* root went, and what was there at the call.  badStatus is the url (1..3) whose
\* transfer completed with no result or a status other than 200.  requested
\* are the identifiers the calls of this slot have asked to install so far;
\* wasInstalled tells a deleteMushaf that its identifier was installed at the
\* call; prev is "uninstall" for a call made right after a deleteMushaf of
\* the same identifier, installed at that call, has resolved, and "delete"
\* for a deleteMushaf called right after another deleteMushaf of the same
\* identifier has resolved.
NoHist ==
    [cbs |-> <<>>, terminals |-> 0, afterTerminal |-> FALSE,
     raisedAt |-> "", raised |-> Null, wrote |-> {}, cleanup |-> "none",
     rowBefore |-> FALSE, flagsBefore |-> FALSE, badStatus |-> 0,
     requested |-> {}, wasInstalled |-> FALSE, prev |-> ""]

InitLocal ==
    /\ fs = [i \in MushafIds |-> NoDir]
    /\ catalog = {}
    /\ storage = [k \in StorageKeys |-> Null]
    /\ progressCallbacks = [i \in MushafIds |-> Null]
    /\ task = [r \in Tasks |-> IdleTask]
    /\ written = [r \in Tasks |-> 0]
    /\ hist = [r \in Tasks |-> NoHist]
    /\ installedOk = [i \in MushafIds |-> FALSE]

(***************************************************************************)
(* Text is a sequence of decimal digits (the go-to-page field has a        *)
(* number pad; quran_last_page holds what Number.toString() gave).         *)
(***************************************************************************)
Digits == 0..9
\* The digits that are typed: those of the pages, 0 and one more.
TypedDigits == {d \in Digits : d <= TOTAL_PAGES + 1}
\* Number.prototype.toString() of a non-negative integer.
RECURSIVE toString(_)
toString(n) == IF n < 10 THEN <<n>> ELSE Append(toString(n \div 10), n % 10)
\* parseInt() of a text of digits: NaN for the empty text.
NaN == -1
RECURSIVE digitsValue(_)
digitsValue(t) ==
    IF t = <<>> THEN 0 ELSE digitsValue(SubSeq(t, 1, Len(t) - 1)) * 10 + t[Len(t)]
parseInt(t) == IF t = <<>> THEN NaN ELSE digitsValue(t)
\* What can be typed in the go-to-page field.
GoToTexts == UNION {[1..n -> TypedDigits] : n \in 0..MaxDigits}

(***************************************************************************)
(* ReaderScreen and MushafPageRenderer after the first render and its      *)
(* effects.  loadLastPage() has called getItem('quran_last_page'), which   *)
(* will resolve with lastPage, the value of the key at that call (the      *)
(* calls on AsyncStorage are served in the order they are made);           *)
(* saveCurrentPage() has then called setItem with the text of page 1,      *)
(* after which the key holds nowStored; generatePageHTML() has started its *)
(* fetch of page 1.  firstRenderPage is the currentPage in the closures    *)
(* that PanResponder.create() got, once, at the first render.              *)
(***************************************************************************)
ReaderMounted(lastPage, nowStored) ==
    [currentPage |-> 1, showGoToPage |-> FALSE, fontVersion |-> "v1",
     firstRenderPage |-> 1, loadingLastPage |-> TRUE, lastPage |-> lastPage,
     quran_last_page |-> nowStored]
RendererMounted ==
    [htmlContent |-> Null, loading |-> TRUE, error |-> Null, fetches |-> {<<1, "v1">>}]

\* saveCurrentPage() with currentPage p on a store where the key holds q:
\* what the key may hold once setItem has settled (a rejection is logged).
saveCurrentPage(q, p) == {q, Some(toString(p))}

\* The reader as the installations leave it.
InitScreens ==
    /\ readerScreen = ReaderMounted(Null, Null)
    /\ pageRenderer = RendererMounted

\* One Mushaf is installed and removed, whatever its urls serve.
Init ==
    /\ remote \in [MushafIds -> Remotes]
    /\ \A i \in MushafIds \ SeqIds : remote[i] = GoodRemote
    /\ InitLocal
    /\ InitScreens

(***************************************************************************)
(* isInstalled / getMushafPath: lookups in the flag store.                 *)
(***************************************************************************)
\* Mutant: `installed !== 'false'`, an absent flag counts as installed.
isInstalledUnlessFalse(mushafId) == storage[installedKey(mushafId)] /= Some("false")

isInstalled(mushafId) == storage[installedKey(mushafId)] = Some("true")

getMushafPath(mushafId) == storage[pathKey(mushafId)]

(***************************************************************************)
(* onProgress(progress): the caller's callback gets the record as it is at *)
(* the call.  h is the call's history, p the record.                       *)
(***************************************************************************)
onProgress(h, p) ==
    [h EXCEPT !.cbs = Append(@, p),
              !.terminals = IF p.status \in TerminalStatuses
                            THEN h.terminals + 1 ELSE h.terminals,
              !.afterTerminal = h.afterTerminal \/ h.terminals > 0]

\* A step that reports starts a new list of snapshots.
NewStep(h) == [h EXCEPT !.cbs = <<>>]
\* The last snapshot the callback of a call got.
LastCb(h) == h.cbs[Len(h.cbs)]

\* The weights of the three transfers: fraction w/Chunks of a transfer as a
\* percentage of the installation (in 1/Chunks percent).
\* Mutant: the database's fraction taken as the percentage of the whole.
dbProgressUnweighted(w) == w * 100
dbProgress(w) == w * 10
\* Mutant: the common fonts' share without its base of 10.
commonProgressWithoutBase(w) == w * 5
commonProgress(w) == Pct(10) + w * 5
\* Mutant: the page fonts' share taken as all that is left after the first
\* two transfers.
fontsProgressToFull(w) == Pct(15) + w * 85
fontsProgress(w) == Pct(15) + w * 60
\* progress.downloaded_bytes, in total_bytes / (10 * Chunks)
dbBytes(w) == w
fontsBytes(w) == w * 6

\* Mutant: a catch block that rethrows without awaiting the cleanup.
catchBlockWithoutCleanup(t, e) ==
    [t EXCEPT !.progress = [t.progress EXCEPT !.status = "failed",
                                              !.error = Some(e.message),
                                              !.current_step = "Erreur"],
              !.error = Some(e),
              !.pc = "done", !.outcome = "rejected", !.rejection = Some(e)]

(***************************************************************************)
(* The catch block of downloadMushaf, up to `await cleanupPartialDownload`:*)
(* t is the call's locals, e what was thrown.                              *)
(***************************************************************************)
catchBlock(t, e) ==
    [t EXCEPT !.progress = [t.progress EXCEPT !.status = "failed",
                                              !.error = Some(e.message),
                                              !.current_step = "Erreur"],
              !.error = Some(e),
              !.pc = "cleanup"]

\* Mutant: a catch block that ends without `throw error`.
catchEndSwallowing(t, removalFailed) ==
    [t EXCEPT !.pc = "done", !.outcome = "resolved"]

\* Mutant: cleanupPartialDownload without its own try/catch, so that a failed
\* removal is what the call rejects with.
catchEndCleanupEscapes(t, removalFailed) ==
    [t EXCEPT !.pc = "done", !.outcome = "rejected",
              !.rejection = IF removalFailed THEN Some(PlatformErr("deleteAsync"))
                            ELSE t.error]

\* The end of the catch block, once cleanupPartialDownload has settled:
\* `throw error`, whether the removal failed (it is logged) or not.
catchEnd(t, removalFailed) ==
    [t EXCEPT !.pc = "done", !.outcome = "rejected", !.rejection = t.error]

\* Mutant: a catch block that sets `failed` without calling onProgress.
RaiseUnreported(r, e, h) ==
    LET t2 == catchBlock(task[r], e)
        h1 == [NewStep(h) EXCEPT !.raisedAt = task[r].pc, !.raised = Some(e)]
    IN  /\ task' = [task EXCEPT ![r] = t2]
        /\ hist' = [hist EXCEPT ![r] = h1]

\* Exception e reaches the catch block of call r, whose history was h.
Raise(r, e, h) ==
    LET t2 == catchBlock(task[r], e)
        h1 == [NewStep(h) EXCEPT !.raisedAt = task[r].pc, !.raised = Some(e)]
    IN  /\ task' = [task EXCEPT ![r] = t2]
        /\ hist' = [hist EXCEPT ![r] = onProgress(h1, t2.progress)]

Throw(r, e) == Raise(r, e, hist[r])

\* Call r goes on with locals t2 after reporting its progress record.
Report(r, t2) ==
    /\ task' = [task EXCEPT ![r] = t2]
    /\ hist' = [hist EXCEPT ![r] = onProgress(NewStep(hist[r]), t2.progress)]

\* Call r goes on with locals t2, nothing is reported.
Goto(r, t2) ==
    /\ task' = [task EXCEPT ![r] = t2]
    /\ UNCHANGED hist

At(r, pc) == task[r].op = "install" /\ task[r].pc = pc
Free(r) == task[r].pc \in {"idle", "done"}

(***************************************************************************)
(* downloadMushaf(mushaf, onProgress), lines 24-46: the call, up to the    *)
(* first await.                                                            *)
(***************************************************************************)
downloadMushaf(r, id) ==
    /\ Free(r)
    /\ task' = [task EXCEPT ![r] =
                  [op |-> "install", id |-> id, pc |-> "mkdirRoot",
                   progress |-> InitialProgress(Mushaf(id)), idx |-> 0,
                   error |-> Null, outcome |-> "pending", rejection |-> Null]]
    /\ progressCallbacks' = [progressCallbacks EXCEPT ![id] = Some(r)]
    /\ hist' = [hist EXCEPT ![r] =
                  [NoHist EXCEPT !.rowBefore = (\E row \in catalog : row.id = id),
                                 !.flagsBefore = (storage[installedKey(id)] /= Null
                                                  \/ storage[pathKey(id)] /= Null),
                                 !.requested = hist[r].requested \cup {id},
                                 !.prev = IF /\ task[r].op = "delete" /\ task[r].id = id
                                             /\ task[r].outcome = "resolved"
                                             /\ hist[r].wasInstalled
                                          THEN "uninstall" ELSE ""]]
    /\ written' = [written EXCEPT ![r] = 0]
    /\ UNCHANGED <<readerScreen, pageRenderer, remote, fs, catalog, storage, installedOk>>

\* Step 1: makeDirectoryAsync(mushafDir, {intermediates: true}) settles.
MkdirRoot(r) ==
    /\ At(r, "mkdirRoot")
    /\ \/ /\ fs' = [fs EXCEPT ![task[r].id].exists = TRUE]
          /\ Goto(r, [task[r] EXCEPT !.pc = "mkdirFonts"])
       \/ /\ Throw(r, PlatformErr("makeDirectoryAsync"))
          /\ UNCHANGED fs
    /\ UNCHANGED <<readerScreen, pageRenderer, remote, catalog, storage, progressCallbacks, written, installedOk>>

\* makeDirectoryAsync(mushafDir + "fonts/") settles; step 2 starts the
\* transfer of the layout database.
MkdirFonts(r) ==
    /\ At(r, "mkdirFonts")
    /\ \/ /\ fs' = [fs EXCEPT ![task[r].id].exists = TRUE, ![task[r].id].fonts = TRUE]
          /\ Report(r, [task[r] EXCEPT !.pc = "downloadDb",
                                       !.progress.status = "downloading",
                                       !.progress.current_step = "Telechargement de la base"])
          /\ written' = [written EXCEPT ![r] = 0]
       \/ /\ Throw(r, PlatformErr("makeDirectoryAsync"))
          /\ UNCHANGED <<fs, written>>
    /\ UNCHANGED <<readerScreen, pageRenderer, remote, catalog, storage, progressCallbacks, installedOk>>

(***************************************************************************)
(* downloadFile, lines 172-192.  The transfer's progress listener: bytes   *)
(* written only grow, and the fraction written / expected goes to the      *)
(* step's own callback, which sets the record and reports it.              *)
(***************************************************************************)
downloadTick(t, w) ==
    CASE t.pc = "downloadDb" ->
            [t EXCEPT !.progress.progress = dbProgress(w),
                      !.progress.downloaded_bytes = dbBytes(w)]
      [] t.pc = "downloadCommon" ->
            [t EXCEPT !.progress.progress = commonProgress(w)]
      [] t.pc = "downloadFonts" ->
            [t EXCEPT !.progress.progress = fontsProgress(w),
                      !.progress.downloaded_bytes = fontsBytes(w)]

DownloadProgressTick(r) ==
    /\ task[r].op = "install"
    /\ task[r].pc \in {"downloadDb", "downloadCommon", "downloadFonts"}
    /\ \E w \in written[r]..Chunks :
          /\ written' = [written EXCEPT ![r] = w]
          /\ Report(r, downloadTick(task[r], w))
    /\ UNCHANGED <<readerScreen, pageRenderer, remote, fs, catalog, storage, progressCallbacks, installedOk>>

\* The await of the transfer of url 1..3, and the one that follows it.
downloadStep(url) ==
    CASE url = 1 -> "downloadDb" [] url = 2 -> "downloadCommon" [] url = 3 -> "downloadFonts"
stepAfterDownload(url) ==
    CASE url = 1 -> "downloadCommon" [] url = 2 -> "downloadFonts" [] url = 3 -> "unzipCommon"

\* Mutant: downloadFile without `if (!result || result.status !== 200)`, a
\* transfer that completes with another status goes on to the next step.
downloadFailedStatusUnchecked(r, url) ==
    \/ Throw(r, PlatformErr("downloadAsync"))
    \/ /\ task' = [task EXCEPT ![r].pc = stepAfterDownload(url)]
       /\ hist' = [hist EXCEPT ![r].badStatus = url]

\* downloadAsync() settles: it rejects, or resolves with no result or a
\* status other than 200 (downloadFile throws), or with status 200.
downloadFailed(r, url) ==
    \/ Throw(r, PlatformErr("downloadAsync"))
    \/ Raise(r, DownloadErr(task[r].id, url), [hist[r] EXCEPT !.badStatus = url])

DownloadDbDone(r) ==
    /\ At(r, "downloadDb")
    /\ \/ /\ fs[task[r].id].exists
          /\ fs' = [fs EXCEPT ![task[r].id].db = Some(remote[task[r].id].db)]
          /\ Report(r, [task[r] EXCEPT !.pc = "downloadCommon",
                                       !.progress.current_step = "Telechargement des polices communes"])
          /\ written' = [written EXCEPT ![r] = 0]
       \/ /\ downloadFailed(r, 1)
          /\ UNCHANGED <<fs, written>>
    /\ UNCHANGED <<readerScreen, pageRenderer, remote, catalog, storage, progressCallbacks, installedOk>>

\* Mutant: the transfer of the page fonts is started but not awaited, the
\* extraction follows the common fonts' transfer.
DownloadCommonDoneNotAwaitingFonts(r) ==
    /\ At(r, "downloadCommon")
    /\ \/ /\ fs[task[r].id].exists
          /\ fs' = [fs EXCEPT ![task[r].id].commonZip = Some(remote[task[r].id].common)]
          /\ Report(r, [task[r] EXCEPT !.pc = "unzipCommon",
                                       !.progress.status = "extracting",
                                       !.progress.progress = Pct(75)])
          /\ written' = [written EXCEPT ![r] = 0]
       \/ /\ downloadFailed(r, 2)
          /\ UNCHANGED <<fs, written>>
    /\ UNCHANGED <<readerScreen, pageRenderer, remote, catalog, storage, progressCallbacks, installedOk>>

DownloadCommonDone(r) ==
    /\ At(r, "downloadCommon")
    /\ \/ /\ fs[task[r].id].exists
          /\ fs' = [fs EXCEPT ![task[r].id].commonZip = Some(remote[task[r].id].common)]
          /\ Report(r, [task[r] EXCEPT !.pc = "downloadFonts",
                                       !.progress.current_step = "Telechargement des polices"])
          /\ written' = [written EXCEPT ![r] = 0]
       \/ /\ downloadFailed(r, 2)
          /\ UNCHANGED <<fs, written>>
    /\ UNCHANGED <<readerScreen, pageRenderer, remote, catalog, storage, progressCallbacks, installedOk>>

\* Mutant: step 5 without `progress.status = 'extracting'`.
DownloadFontsDoneKeepingStatus(r) ==
    /\ At(r, "downloadFonts")
    /\ \/ /\ fs[task[r].id].exists
          /\ fs' = [fs EXCEPT ![task[r].id].fontsZip = Some(remote[task[r].id].fonts)]
          /\ Report(r, [task[r] EXCEPT !.pc = "unzipCommon",
                                       !.progress.progress = Pct(75)])
       \/ /\ downloadFailed(r, 3)
          /\ UNCHANGED fs
    /\ UNCHANGED <<readerScreen, pageRenderer, remote, catalog, storage, progressCallbacks, written, installedOk>>

\* The last transfer; step 5 then starts the extraction of the common fonts.
DownloadFontsDone(r) ==
    /\ At(r, "downloadFonts")
    /\ \/ /\ fs[task[r].id].exists
          /\ fs' = [fs EXCEPT ![task[r].id].fontsZip = Some(remote[task[r].id].fonts)]
          /\ Report(r, [task[r] EXCEPT !.pc = "unzipCommon",
                                       !.progress.status = "extracting",
                                       !.progress.current_step = "Extraction des polices communes",
                                       !.progress.progress = Pct(75)])
       \/ /\ downloadFailed(r, 3)
          /\ UNCHANGED fs
    /\ UNCHANGED <<readerScreen, pageRenderer, remote, catalog, storage, progressCallbacks, written, installedOk>>

(***************************************************************************)
(* Steps 5 and 6: extraction, lines 105-128.                               *)
(***************************************************************************)
\* Mutant: a rejected unzip is not awaited, the archive is deleted next.
UnzipCommonUnchecked(r) ==
    /\ At(r, "unzipCommon")
    /\ \/ /\ fs[task[r].id].commonZip /= Null
          /\ fs' = [fs EXCEPT ![task[r].id].common = @ \cup Val(fs[task[r].id].commonZip)]
       \/ UNCHANGED fs
    /\ Goto(r, [task[r] EXCEPT !.pc = "deleteCommonZip"])
    /\ UNCHANGED <<readerScreen, pageRenderer, remote, catalog, storage, progressCallbacks, written, installedOk>>

\* unzip(commonFontsZip, fonts/common/) settles.
UnzipCommon(r) ==
    /\ At(r, "unzipCommon")
    /\ \/ /\ fs[task[r].id].commonZip /= Null
          /\ fs' = [fs EXCEPT ![task[r].id].common = @ \cup Val(fs[task[r].id].commonZip)]
          /\ Goto(r, [task[r] EXCEPT !.pc = "deleteCommonZip"])
       \/ /\ Throw(r, PlatformErr("unzip"))
          /\ UNCHANGED fs
    /\ UNCHANGED <<readerScreen, pageRenderer, remote, catalog, storage, progressCallbacks, written, installedOk>>

\* deleteAsync(commonFontsZip, {idempotent: true}) settles.
DeleteCommonZip(r) ==
    /\ At(r, "deleteCommonZip")
    /\ \/ /\ fs' = [fs EXCEPT ![task[r].id].commonZip = Null]
          /\ Report(r, [task[r] EXCEPT !.pc = "unzipFonts",
                                       !.progress.current_step = "Extraction des polices",
                                       !.progress.progress = Pct(80)])
       \/ /\ Throw(r, PlatformErr("deleteAsync"))
          /\ UNCHANGED fs
    /\ UNCHANGED <<readerScreen, pageRenderer, remote, catalog, storage, progressCallbacks, written, installedOk>>

\* unzip(fontsZipPath, fonts/pages/) settles.
UnzipFonts(r) ==
    /\ At(r, "unzipFonts")
    /\ \/ /\ fs[task[r].id].fontsZip /= Null
          /\ fs' = [fs EXCEPT ![task[r].id].pages = @ \cup Val(fs[task[r].id].fontsZip)]
          /\ Goto(r, [task[r] EXCEPT !.pc = "deleteFontsZip"])
       \/ /\ Throw(r, PlatformErr("unzip"))
          /\ UNCHANGED fs
    /\ UNCHANGED <<readerScreen, pageRenderer, remote, catalog, storage, progressCallbacks, written, installedOk>>

\* deleteAsync(fontsZipPath) settles: 95 is reported, then step 7 reports
\* `verifying` and verifyIntegrity probes its first path.
DeleteFontsZip(r) ==
    /\ At(r, "deleteFontsZip")
    /\ \/ /\ fs' = [fs EXCEPT ![task[r].id].fontsZip = Null]
          /\ LET t1 == [task[r] EXCEPT !.progress.progress = Pct(95)]
                 t2 == [t1 EXCEPT !.pc = "getInfo", !.idx = 1,
                                  !.progress.status = "verifying",
                                  !.progress.current_step = "Verification de l'integrite"]
             IN  /\ task' = [task EXCEPT ![r] = t2]
                 /\ hist' = [hist EXCEPT ![r] =
                               onProgress(onProgress(NewStep(hist[r]), t1.progress), t2.progress)]
       \/ /\ Throw(r, PlatformErr("deleteAsync"))
          /\ UNCHANGED fs
    /\ UNCHANGED <<readerScreen, pageRenderer, remote, catalog, storage, progressCallbacks, written, installedOk>>

(***************************************************************************)
(* verifyIntegrity, lines 197-223.                                         *)
(***************************************************************************)
\* getInfoAsync(criticalFiles[idx]) settles.
GetInfo(r) ==
    /\ At(r, "getInfo")
    /\ LET t == task[r]
           d == fs[t.id] IN
       \/ /\ criticalFileExists(d, Mushaf(t.id), t.idx)
          /\ Goto(r, IF t.idx < NumCriticalFiles
                     THEN [t EXCEPT !.idx = t.idx + 1]
                     ELSE [t EXCEPT !.pc = "readDirectory", !.idx = 0])
       \/ /\ ~criticalFileExists(d, Mushaf(t.id), t.idx)
          /\ Throw(r, MissingErr(t.id, t.idx))
       \/ Throw(r, PlatformErr("getInfoAsync"))
    /\ UNCHANGED <<readerScreen, pageRenderer, remote, fs, catalog, storage, progressCallbacks, written, installedOk>>

\* The .ttf files found in fonts/pages/.
fontFiles(d) == d.pages

\* Mutant: `fontFiles.length < mushaf.pages_count` is the only mismatch.
fontCountOkAtLeast(d, m) == Cardinality(fontFiles(d)) >= m.pages_count

fontCountOk(d, m) == Cardinality(fontFiles(d)) = m.pages_count

\* readDirectoryAsync(fonts/pages/) settles; when the count matches,
\* validate15LinesPerPage opens the layout database.
ReadDirectory(r) ==
    /\ At(r, "readDirectory")
    /\ LET t == task[r]
           d == fs[t.id] IN
       \/ /\ d.exists /\ fontCountOk(d, Mushaf(t.id))
          /\ Goto(r, [t EXCEPT !.pc = "openLayoutDb"])
       \/ /\ d.exists /\ ~fontCountOk(d, Mushaf(t.id))
          /\ Throw(r, CountErr(Mushaf(t.id).pages_count, Cardinality(fontFiles(d))))
       \/ Throw(r, PlatformErr("readDirectoryAsync"))
    /\ UNCHANGED <<readerScreen, pageRenderer, remote, fs, catalog, storage, progressCallbacks, written, installedOk>>

(***************************************************************************)
(* validate15LinesPerPage, lines 228-258.                                  *)
(***************************************************************************)
OpenLayoutDb(r) ==
    /\ At(r, "openLayoutDb")
    /\ \/ Goto(r, [task[r] EXCEPT !.pc = "countLines", !.idx = 1])
       \/ Throw(r, PlatformErr("openDatabaseAsync"))
    /\ UNCHANGED <<readerScreen, pageRenderer, remote, fs, catalog, storage, progressCallbacks, written, installedOk>>

\* `if (result && result.count !== 8)` / `!== 15`: the page is refused.
lineCountRefused(page, result) ==
    result /= Null /\ Val(result) /= RequiredLines(page)

\* Mutant: `page < totalPages`, the last page is never counted.
nextPageExclusive(page, totalPages) ==
    IF page = 1 THEN 2
    ELSE IF page + 1 < totalPages THEN page + 1 ELSE 0

\* The page after `page` in `for (page of [1, 2])` then
\* `for (page = 3; page <= totalPages; page++)`; 0 when the loops are over.
nextPage(page, totalPages) ==
    IF page = 1 THEN 2
    ELSE IF page + 1 <= totalPages THEN page + 1 ELSE 0

\* getFirstAsync(SELECT COUNT(*) ... page_number = idx) settles.
CountLines(r) ==
    /\ At(r, "countLines")
    /\ LET t == task[r]
           d == fs[t.id]
           result == Val(d.db)[t.idx] IN
       \/ /\ d.db /= Null
          /\ ~lineCountRefused(t.idx, result)
          /\ Goto(r, IF nextPage(t.idx, Mushaf(t.id).pages_count) /= 0
                     THEN [t EXCEPT !.idx = nextPage(t.idx, Mushaf(t.id).pages_count)]
                     ELSE [t EXCEPT !.pc = "openMainDb", !.idx = 0])
       \/ /\ d.db /= Null
          /\ lineCountRefused(t.idx, result)
          /\ Throw(r, LinesErr(t.idx, Val(result)))
       \/ Throw(r, PlatformErr("getFirstAsync"))
    /\ UNCHANGED <<readerScreen, pageRenderer, remote, fs, catalog, storage, progressCallbacks, written, installedOk>>

(***************************************************************************)
(* Steps 9 and 10: the catalog row and the two flags, lines 135-151.       *)
(***************************************************************************)
OpenMainDb(r) ==
    /\ At(r, "openMainDb")
    /\ \/ Goto(r, [task[r] EXCEPT !.pc = "insertRow"])
       \/ Throw(r, PlatformErr("openDatabaseAsync"))
    /\ UNCHANGED <<readerScreen, pageRenderer, remote, fs, catalog, storage, progressCallbacks, written, installedOk>>

\* The row of installed_mushafs; installed_at is new Date() at the call.
catalogRow(m, at) ==
    [id |-> m.id, name |-> m.name, code |-> m.code, pages_count |-> m.pages_count,
     lines_per_page |-> m.lines_per_page, local_path |-> mushafDir(m.id),
     installed_at |-> at]

hasRow(id) == \E row \in catalog : row.id = id

\* Mutant: installed_mushafs without its PRIMARY KEY, every INSERT adds a row.
InsertRowWithoutKey(r) ==
    /\ At(r, "insertRow")
    /\ \/ /\ \E at \in Readings :
                catalog' = catalog \cup {catalogRow(Mushaf(task[r].id), at)}
          /\ task' = [task EXCEPT ![r].pc = "setInstalled"]
          /\ hist' = [hist EXCEPT ![r].wrote = @ \cup {"row"}]
       \/ /\ Throw(r, PlatformErr("runAsync"))
          /\ UNCHANGED catalog
    /\ UNCHANGED <<readerScreen, pageRenderer, remote, fs, storage, progressCallbacks, written, installedOk>>

\* runAsync(INSERT INTO installed_mushafs ...) settles; id is the PRIMARY KEY.
InsertRow(r) ==
    /\ At(r, "insertRow")
    /\ \/ /\ ~hasRow(task[r].id)
          /\ \E at \in Readings :
                catalog' = catalog \cup {catalogRow(Mushaf(task[r].id), at)}
          /\ task' = [task EXCEPT ![r].pc = "setInstalled"]
          /\ hist' = [hist EXCEPT ![r].wrote = @ \cup {"row"}]
       \/ /\ hasRow(task[r].id)
          /\ Throw(r, ConstraintErr(task[r].id))
          /\ UNCHANGED catalog
       \/ /\ Throw(r, PlatformErr("runAsync"))
          /\ UNCHANGED catalog
    /\ UNCHANGED <<readerScreen, pageRenderer, remote, fs, storage, progressCallbacks, written, installedOk>>

\* Mutant: the path flag is not written; the call completes after the first
\* flag.
SetInstalledThenCompleted(r) ==
    /\ At(r, "setInstalled")
    /\ \/ /\ storage' = [storage EXCEPT ![installedKey(task[r].id)] = Some("true")]
          /\ task' = [task EXCEPT ![r] =
                        [@ EXCEPT !.pc = "done", !.outcome = "resolved",
                                  !.progress.status = "completed",
                                  !.progress.progress = Pct(100)]]
          /\ hist' = [hist EXCEPT ![r] =
                        onProgress([NewStep(hist[r]) EXCEPT !.wrote = @ \cup {"installed"}],
                                   task'[r].progress)]
          /\ progressCallbacks' = [progressCallbacks EXCEPT ![task[r].id] = Null]
          /\ installedOk' = [installedOk EXCEPT ![task[r].id] = TRUE]
       \/ /\ Throw(r, PlatformErr("setItem"))
          /\ UNCHANGED <<storage, progressCallbacks, installedOk>>
    /\ UNCHANGED <<readerScreen, pageRenderer, remote, fs, catalog, written>>

\* AsyncStorage.setItem(`mushaf_${id}_installed`, 'true') settles.
SetInstalled(r) ==
    /\ At(r, "setInstalled")
    /\ \/ /\ storage' = [storage EXCEPT ![installedKey(task[r].id)] = Some("true")]
          /\ task' = [task EXCEPT ![r].pc = "setPath"]
          /\ hist' = [hist EXCEPT ![r].wrote = @ \cup {"installed"}]
       \/ /\ Throw(r, PlatformErr("setItem"))
          /\ UNCHANGED storage
    /\ UNCHANGED <<readerScreen, pageRenderer, remote, fs, catalog, progressCallbacks, written, installedOk>>

\* Mutant: a rejected setItem of the path flag is swallowed, and the call
\* completes all the same.
SetPathIgnoringFailure(r) ==
    /\ At(r, "setPath")
    /\ \E stored \in BOOLEAN :
          /\ storage' = IF stored
                         THEN [storage EXCEPT ![pathKey(task[r].id)] = Some(mushafDir(task[r].id))]
                         ELSE storage
          /\ task' = [task EXCEPT ![r] =
                        [@ EXCEPT !.pc = "done", !.outcome = "resolved",
                                  !.progress.status = "completed",
                                  !.progress.progress = Pct(100)]]
          /\ hist' = [hist EXCEPT ![r] =
                        onProgress([NewStep(hist[r]) EXCEPT
                                       !.wrote = IF stored THEN @ \cup {"path"} ELSE @],
                                   task'[r].progress)]
    /\ progressCallbacks' = [progressCallbacks EXCEPT ![task[r].id] = Null]
    /\ installedOk' = [installedOk EXCEPT ![task[r].id] = TRUE]
    /\ UNCHANGED <<readerScreen, pageRenderer, remote, fs, catalog, written>>

\* The `finally` block: both maps forget the identifier.
finallyBlock(callbacks, id) == [callbacks EXCEPT ![id] = Null]

\* AsyncStorage.setItem(`mushaf_${id}_path`, mushafDir) settles; on success
\* `completed` is reported with 100 and the call resolves.
SetPath(r) ==
    /\ At(r, "setPath")
    /\ \/ /\ storage' = [storage EXCEPT ![pathKey(task[r].id)] = Some(mushafDir(task[r].id))]
          /\ task' = [task EXCEPT ![r] =
                        [@ EXCEPT !.pc = "done", !.outcome = "resolved",
                                  !.progress.status = "completed",
                                  !.progress.progress = Pct(100),
                                  !.progress.current_step = "Installation terminee"]]
          /\ hist' = [hist EXCEPT ![r] =
                        onProgress([NewStep(hist[r]) EXCEPT !.wrote = @ \cup {"path"}],
                                   task'[r].progress)]
          /\ progressCallbacks' = finallyBlock(progressCallbacks, task[r].id)
          /\ installedOk' = [installedOk EXCEPT ![task[r].id] = TRUE]
       \/ /\ Throw(r, PlatformErr("setItem"))
          /\ UNCHANGED <<storage, progressCallbacks, installedOk>>
    /\ UNCHANGED <<readerScreen, pageRenderer, remote, fs, catalog, written>>

(***************************************************************************)
(* cleanupPartialDownload, lines 277-283, and the end of the catch block:  *)
(* deleteAsync(mushafDir, {idempotent: true}) settles, a rejection is      *)
(* logged, and downloadMushaf rejects.                                     *)
(***************************************************************************)
CleanupPartialDownload(r) ==
    /\ At(r, "cleanup")
    /\ \E removed \in BOOLEAN :
          /\ fs' = IF removed THEN [fs EXCEPT ![task[r].id] = NoDir] ELSE fs
          /\ task' = [task EXCEPT ![r] = catchEnd(task[r], ~removed)]
          /\ hist' = [hist EXCEPT ![r].cleanup = IF removed THEN "removed" ELSE "failed"]
    /\ progressCallbacks' = finallyBlock(progressCallbacks, task[r].id)
    /\ UNCHANGED <<readerScreen, pageRenderer, remote, catalog, storage, written, installedOk>>

(***************************************************************************)
(* deleteMushaf(mushafId), lines 263-272.  Nothing is caught: a rejection  *)
(* of any of its five calls rejects deleteMushaf there.                    *)
(***************************************************************************)
AtDelete(r, pc) == task[r].op = "delete" /\ task[r].pc = pc

\* deleteMushaf goes on to the call at pc after write w has been made.
deleteWrote(r, w, pc) ==
    /\ task' = [task EXCEPT ![r].pc = pc]
    /\ hist' = [hist EXCEPT ![r].wrote = @ \cup {w}]

deleteRejects(r, call) ==
    /\ task' = [task EXCEPT ![r] =
                  [@ EXCEPT !.pc = "done", !.outcome = "rejected",
                            !.rejection = Some(PlatformErr(call))]]
    /\ hist' = [hist EXCEPT ![r].raisedAt = task[r].pc,
                            ![r].raised = Some(PlatformErr(call))]

deleteMushaf(r, id) ==
    /\ Free(r)
    /\ task' = [task EXCEPT ![r] =
                  [IdleTask EXCEPT !.op = "delete", !.id = id, !.pc = "deleteRoot",
                                   !.outcome = "pending"]]
    /\ hist' = [hist EXCEPT ![r] =
                  [NoHist EXCEPT !.rowBefore = hasRow(id),
                                 !.flagsBefore = (storage[installedKey(id)] /= Null
                                                  \/ storage[pathKey(id)] /= Null),
                                 !.requested = hist[r].requested,
                                 !.wasInstalled = installedOk[id],
                                 !.prev = IF /\ task[r].op = "delete" /\ task[r].id = id
                                             /\ task[r].outcome = "resolved"
                                          THEN IF hist[r].wasInstalled
                                               THEN "uninstall" ELSE "delete"
                                          ELSE ""]]
    /\ installedOk' = [installedOk EXCEPT ![id] = FALSE]
    /\ UNCHANGED <<readerScreen, pageRenderer, remote, fs, catalog, storage, progressCallbacks, written>>

\* deleteAsync(mushafDir, {idempotent: true}) settles.
DeleteRoot(r) ==
    /\ AtDelete(r, "deleteRoot")
    /\ \/ /\ fs' = [fs EXCEPT ![task[r].id] = NoDir]
          /\ Goto(r, [task[r] EXCEPT !.pc = "deleteOpenDb"])
       \/ /\ deleteRejects(r, "deleteAsync")
          /\ UNCHANGED fs
    /\ UNCHANGED <<readerScreen, pageRenderer, remote, catalog, storage, progressCallbacks, written, installedOk>>

DeleteOpenDb(r) ==
    /\ AtDelete(r, "deleteOpenDb")
    /\ \/ Goto(r, [task[r] EXCEPT !.pc = "deleteRow"])
       \/ deleteRejects(r, "openDatabaseAsync")
    /\ UNCHANGED <<readerScreen, pageRenderer, remote, fs, catalog, storage, progressCallbacks, written, installedOk>>

\* Mutant: DELETE FROM installed_mushafs without its WHERE clause.
DeleteRowWithoutWhere(r) ==
    /\ AtDelete(r, "deleteRow")
    /\ \/ /\ catalog' = {}
          /\ deleteWrote(r, "row", "removeInstalled")
       \/ /\ deleteRejects(r, "runAsync")
          /\ UNCHANGED catalog
    /\ UNCHANGED <<readerScreen, pageRenderer, remote, fs, storage, progressCallbacks, written, installedOk>>

\* runAsync(DELETE FROM installed_mushafs WHERE id = ?) settles.
DeleteRow(r) ==
    /\ AtDelete(r, "deleteRow")
    /\ \/ /\ catalog' = {row \in catalog : row.id /= task[r].id}
          /\ deleteWrote(r, "row", "removeInstalled")
       \/ /\ deleteRejects(r, "runAsync")
          /\ UNCHANGED catalog
    /\ UNCHANGED <<readerScreen, pageRenderer, remote, fs, storage, progressCallbacks, written, installedOk>>

RemoveInstalled(r) ==
    /\ AtDelete(r, "removeInstalled")
    /\ \/ /\ storage' = [storage EXCEPT ![installedKey(task[r].id)] = Null]
          /\ deleteWrote(r, "installed", "removePath")
       \/ /\ deleteRejects(r, "removeItem")
          /\ UNCHANGED storage
    /\ UNCHANGED <<readerScreen, pageRenderer, remote, fs, catalog, progressCallbacks, written, installedOk>>

\* Mutant: deleteMushaf without its last line, the path flag stays.
RemovePathSkipped(r) ==
    /\ AtDelete(r, "removePath")
    /\ task' = [task EXCEPT ![r] = [@ EXCEPT !.pc = "done", !.outcome = "resolved"]]
    /\ UNCHANGED <<readerScreen, pageRenderer, remote, fs, catalog, storage, progressCallbacks, written, hist,
                   installedOk>>

RemovePath(r) ==
    /\ AtDelete(r, "removePath")
    /\ \/ /\ storage' = [storage EXCEPT ![pathKey(task[r].id)] = Null]
          /\ task' = [task EXCEPT ![r] = [@ EXCEPT !.pc = "done", !.outcome = "resolved"]]
          /\ hist' = [hist EXCEPT ![r].wrote = @ \cup {"path"}]
       \/ /\ deleteRejects(r, "removeItem")
          /\ UNCHANGED storage
    /\ UNCHANGED <<readerScreen, pageRenderer, remote, fs, catalog, progressCallbacks, written, installedOk>>

(***************************************************************************)
(* The calls are made one after the other (Spec): a call starts when the   *)
(* call slot is free.                                                      *)
(***************************************************************************)
\* A step of an installation, and a step of a deleteMushaf.
InstallStep(r) ==
    \/ MkdirRoot(r)
    \/ MkdirFonts(r)
    \/ DownloadProgressTick(r)
    \/ DownloadDbDone(r)
    \/ DownloadCommonDone(r)
    \/ DownloadFontsDone(r)
    \/ UnzipCommon(r)
    \/ DeleteCommonZip(r)
    \/ UnzipFonts(r)
    \/ DeleteFontsZip(r)
    \/ GetInfo(r)
    \/ ReadDirectory(r)
    \/ OpenLayoutDb(r)
    \/ CountLines(r)
    \/ OpenMainDb(r)
    \/ InsertRow(r)
    \/ SetInstalled(r)
    \/ SetPath(r)
    \/ CleanupPartialDownload(r)

DeleteStep(r) ==
    \/ DeleteRoot(r)
    \/ DeleteOpenDb(r)
    \/ DeleteRow(r)
    \/ RemoveInstalled(r)
    \/ RemovePath(r)

Step(r) == InstallStep(r) \/ DeleteStep(r)

Next ==
    \E r \in SeqTasks :
        \/ \E id \in SeqIds : downloadMushaf(r, id)
        \/ \E id \in MushafIds : deleteMushaf(r, id)
        \/ Step(r)

Spec == Init /\ [][Next]_vars

(***************************************************************************)
(* Calls in flight together: each call slot makes one call, and the steps  *)
(* of the two calls interleave at their awaits.  The urls serve good       *)
(* files.  An installation is asked for by LibraryScreen's download        *)
(* button.                                                                 *)
(***************************************************************************)
\* renderMushafCard, lines 95-98 and 170-182: the button "Telecharger" of id
\* is on the card when id is not in installedMushafs (filled at `completed`)
\* and the store holds no progress for id, or one whose status is `failed`.
\* The store holds the record of the call whose callback ran last.
buttonShown(id) ==
    \A r \in Tasks :
        (task[r].op = "install" /\ task[r].id = id /\ hist[r].cbs /= <<>>) =>
            task[r].progress.status = "failed"

Unused(r) == task[r].pc = "idle"

\* handleDownload(mushaf), lines 49-66, from a tap on the button.
handleDownload(r, id) ==
    /\ buttonShown(id)
    /\ Unused(r)
    /\ downloadMushaf(r, id)

InitConcurrent ==
    /\ remote = [i \in MushafIds |-> GoodRemote]
    /\ InitLocal
    /\ InitScreens

\* Concurrent: two installations with distinct identifiers, slot r installs
\* Mushaf r.
NextConcurrent ==
    \E r \in Tasks :
        \/ handleDownload(r, r)
        \/ InstallStep(r)

Concurrent == InitConcurrent /\ [][NextConcurrent]_vars

\* Overlapping: two calls about the same Mushaf, each an installation or a
\* deleteMushaf.
NextOverlapping ==
    \E r \in Tasks :
        \/ \E id \in SeqIds : handleDownload(r, id)
        \/ \E id \in SeqIds : Unused(r) /\ deleteMushaf(r, id)
        \/ Step(r)

Overlapping == InitConcurrent /\ [][NextOverlapping]_vars

(***************************************************************************)
(* The reader: ReaderScreen renders MushafPageRenderer with its            *)
(* currentPage and fontVersion.  A render with a new currentPage runs the  *)
(* effect that saves it; one with a new pageNumber or fontVersion runs     *)
(* generatePageHTML.                                                       *)
(***************************************************************************)
installerVars == <<remote, fs, catalog, storage, progressCallbacks, task, written, hist, installedOk>>

\* generatePageHTML up to its await: setLoading(true), setError(null), and
\* the fetch of page p for font version v is under way.
generatePageHTML(pr, p, v) ==
    [pr EXCEPT !.loading = TRUE, !.error = Null, !.fetches = @ \cup {<<p, v>>}]

\* Another fetch can be followed.
CanRender == Cardinality(pageRenderer.fetches) < MaxFetches

\* A render of rs with the new currentPage p: the effect saves it and the
\* renderer loads its page.
renderPage(rs, p) ==
    /\ CanRender
    /\ \E q \in saveCurrentPage(rs.quran_last_page, p) :
          readerScreen' = [rs EXCEPT !.currentPage = p, !.quran_last_page = q]
    /\ pageRenderer' = generatePageHTML(pageRenderer, p, rs.fontVersion)

\* setCurrentPage(p) in a handler that leaves the modal shown or not: a new
\* value renders again.
setCurrentPage(p, show) ==
    LET rs == [readerScreen EXCEPT !.showGoToPage = show] IN
    IF p = readerScreen.currentPage
    THEN readerScreen' = rs /\ UNCHANGED pageRenderer
    ELSE renderPage(rs, p)

\* `if (lastPage)`: neither null nor the empty text.
truthy(text) == IF text = Null THEN FALSE ELSE Val(text) /= <<>>

\* loadLastPage: AsyncStorage.getItem('quran_last_page') settles, with the
\* value of the key or rejected (logged).
loadLastPage ==
    /\ readerScreen.loadingLastPage
    /\ LET rs == [readerScreen EXCEPT !.loadingLastPage = FALSE]
           lastPage == readerScreen.lastPage IN
       \/ /\ truthy(lastPage)
          /\ LET p == parseInt(Val(lastPage)) IN
             IF p = rs.currentPage
             THEN readerScreen' = rs /\ UNCHANGED pageRenderer
             ELSE renderPage(rs, p)
       \/ /\ ~truthy(lastPage)
          /\ readerScreen' = rs
          /\ UNCHANGED pageRenderer
       \/ /\ readerScreen' = rs
          /\ UNCHANGED pageRenderer
    /\ UNCHANGED installerVars

\* The screen is left and opened again: a new ReaderScreen is mounted on the
\* store as it is, and what the fetches of the old one set is not shown.
openReader ==
    /\ ~readerScreen.showGoToPage
    /\ \E q \in saveCurrentPage(readerScreen.quran_last_page, 1) :
          readerScreen' = ReaderMounted(readerScreen.quran_last_page, q)
    /\ pageRenderer' = RendererMounted
    /\ UNCHANGED installerVars

\* The toolbar's next button, disabled at TOTAL_PAGES: goToNextPage of the
\* current render.
goToNextPage ==
    /\ ~readerScreen.showGoToPage
    /\ readerScreen.currentPage /= TOTAL_PAGES
    /\ IF readerScreen.currentPage < TOTAL_PAGES
       THEN setCurrentPage(readerScreen.currentPage + 1, FALSE)
       ELSE UNCHANGED <<readerScreen, pageRenderer>>
    /\ UNCHANGED installerVars

\* The toolbar's previous button, disabled at 1: goToPreviousPage of the
\* current render.
goToPreviousPage ==
    /\ ~readerScreen.showGoToPage
    /\ readerScreen.currentPage /= 1
    /\ IF readerScreen.currentPage > 1
       THEN setCurrentPage(readerScreen.currentPage - 1, FALSE)
       ELSE UNCHANGED <<readerScreen, pageRenderer>>
    /\ UNCHANGED installerVars

\* onPanResponderRelease: a swipe to the right calls the goToNextPage, one to
\* the left the goToPreviousPage, that PanResponder.create() was given at the
\* first render; their guards read the currentPage of that render, their
\* updaters the current one.
onPanResponderRelease ==
    /\ ~readerScreen.showGoToPage
    /\ \E swipe \in {"right", "left", "short"} :
          CASE swipe = "right" ->
                  IF readerScreen.firstRenderPage < TOTAL_PAGES
                  THEN /\ readerScreen.currentPage < TOTAL_PAGES + MaxOvershoot
                       /\ setCurrentPage(readerScreen.currentPage + 1, FALSE)
                  ELSE UNCHANGED <<readerScreen, pageRenderer>>
            [] swipe = "left" ->
                  IF readerScreen.firstRenderPage > 1
                  THEN setCurrentPage(readerScreen.currentPage - 1, FALSE)
                  ELSE UNCHANGED <<readerScreen, pageRenderer>>
            [] swipe = "short" -> UNCHANGED <<readerScreen, pageRenderer>>
    /\ UNCHANGED installerVars

\* The home button: setCurrentPage(1).
goHome ==
    /\ ~readerScreen.showGoToPage
    /\ setCurrentPage(1, FALSE)
    /\ UNCHANGED installerVars

\* The page number or the go-to button: setShowGoToPage(true).
openGoToPage ==
    /\ ~readerScreen.showGoToPage
    /\ readerScreen' = [readerScreen EXCEPT !.showGoToPage = TRUE]
    /\ UNCHANGED pageRenderer
    /\ UNCHANGED installerVars

\* Cancel, the overlay or the back key: setShowGoToPage(false).
closeGoToPage ==
    /\ readerScreen.showGoToPage
    /\ readerScreen' = [readerScreen EXCEPT !.showGoToPage = FALSE]
    /\ UNCHANGED pageRenderer
    /\ UNCHANGED installerVars

\* handleGoToPage with the text typed in the field: a page within
\* 1..TOTAL_PAGES is gone to and the modal closed, anything else alerts.
handleGoToPage ==
    /\ readerScreen.showGoToPage
    /\ \E goToPageValue \in GoToTexts :
          LET page == parseInt(goToPageValue) IN
          IF page >= 1 /\ page <= TOTAL_PAGES
          THEN setCurrentPage(page, FALSE)
          ELSE UNCHANGED <<readerScreen, pageRenderer>>
    /\ UNCHANGED installerVars

\* The font button: setFontVersion(v => v === 'v1' ? 'v2' : 'v1'), the page
\* is generated again.
toggleFontVersion ==
    /\ ~readerScreen.showGoToPage
    /\ Cardinality(pageRenderer.fetches) < MaxFetches
    /\ LET v == IF readerScreen.fontVersion = "v1" THEN "v2" ELSE "v1" IN
       /\ readerScreen' = [readerScreen EXCEPT !.fontVersion = v]
       /\ pageRenderer' = generatePageHTML(pageRenderer, readerScreen.currentPage, v)
    /\ UNCHANGED installerVars

\* fetchPageWithWords(pageNumber) of one generatePageHTML settles: the html
\* of that call's page and font version is set, or its error; either way
\* setLoading(false).
fetchPageWithWords ==
    /\ \E f \in pageRenderer.fetches :
          \/ pageRenderer' = [pageRenderer EXCEPT !.fetches = @ \ {f},
                                                  !.htmlContent = Some(f),
                                                  !.loading = FALSE]
          \/ pageRenderer' = [pageRenderer EXCEPT !.fetches = @ \ {f},
                                                  !.error = Some(f[1]),
                                                  !.loading = FALSE]
    /\ UNCHANGED readerScreen
    /\ UNCHANGED installerVars

\* The reader is opened on a store where quran_last_page is absent.
InitReader ==
    /\ remote = [i \in MushafIds |-> GoodRemote]
    /\ InitLocal
    /\ readerScreen \in {ReaderMounted(Null, q) : q \in saveCurrentPage(Null, 1)}
    /\ pageRenderer = RendererMounted

NextReader ==
    \/ loadLastPage
    \/ openReader
    \/ goToNextPage
    \/ goToPreviousPage
    \/ onPanResponderRelease
    \/ goHome
    \/ openGoToPage
    \/ closeGoToPage
    \/ handleGoToPage
    \/ toggleFontVersion
    \/ fetchPageWithWords

Reader == InitReader /\ [][NextReader]_vars

(***************************************************************************)
(* Properties.                                                             *)
(***************************************************************************)
Installing(r) == task[r].op = "install"
Finished(r) == task[r].pc = "done"
Rejected(r) == Installing(r) /\ Finished(r) /\ task[r].outcome = "rejected"
Resolved(r) == Installing(r) /\ Finished(r) /\ task[r].outcome = "resolved"

\* The durable writes a call has made when the step at pc raises.
WritesBefore(pc) ==
    CASE pc = "setInstalled" -> {"row"}
      [] pc = "setPath" -> {"row", "installed"}
      [] OTHER -> {}

\* C1: whatever step of an installation raises, the remaining steps are
\* skipped, the record gets status `failed` and the error's message, the
\* callback gets that failed snapshot exactly once, and only then the root is
\* removed (or the removal fails), after which the call rejects with the
\* error; no call rejects without the removal having been attempted.
C1_FailurePath ==
    \A r \in Tasks : Installing(r) =>
        LET t == task[r]
            h == hist[r] IN
        /\ (t.progress.status = "failed" \/ t.outcome = "rejected" \/ t.pc = "cleanup")
              => h.raised /= Null
        /\ h.raised /= Null =>
              /\ t.pc \in {"cleanup", "done"}
              /\ h.wrote = WritesBefore(h.raisedAt)
              /\ t.progress.status = "failed"
              /\ t.progress.error = Some(Val(h.raised).message)
              /\ h.cbs = <<t.progress>>
              /\ h.terminals = 1 /\ ~h.afterTerminal
              /\ t.pc = "cleanup" => t.outcome = "pending" /\ h.cleanup = "none"
              /\ t.pc = "done" => /\ t.outcome = "rejected"
                                  /\ h.cleanup \in {"removed", "failed"}
                                  /\ t.rejection = h.raised

\* C1 witness: the last step that can raise (the second flag write) did, and
\* the call has rejected.
C1_Witness ==
    \E r \in Tasks : Rejected(r) /\ hist[r].raisedAt = "setPath"

\* A wrong row count on some page of a layout database.
ViolatingPages(db) ==
    {p \in 1..PagesCount : db[p] /= Null /\ Val(db[p]) /= RequiredLines(p)}

PlatformCalls ==
    {"makeDirectoryAsync", "downloadAsync", "unzip", "deleteAsync", "getInfoAsync",
     "readDirectoryAsync", "openDatabaseAsync", "getFirstAsync", "runAsync",
     "setItem", "removeItem"}
IsPlatformErr(e) == e.message[1] \in PlatformCalls

\* Call r is an installation that has ended after downloading a layout
\* database with a wrong row count on some page.
EndedWithViolatingDb(r) ==
    /\ Installing(r) /\ Finished(r)
    /\ hist[r].raisedAt \notin {"mkdirRoot", "mkdirFonts", "downloadDb"}
    /\ ViolatingPages(remote[task[r].id].db) /= {}

\* The steps after the line-count check.
StepsAfterLineCheck == {"openMainDb", "insertRow", "setInstalled", "setPath"}
\* The line-count check of call r raised, and not because its query rejected.
LineCheckRefused(r) ==
    /\ hist[r].raisedAt = "countLines"
    /\ ~IsPlatformErr(Val(hist[r].raised))

C3_InstalledFlags ==
    \A id \in MushafIds : installedOk[id] =>
        /\ isInstalled(id)
        /\ getMushafPath(id) = Some(mushafDir(id))

\* C3 witness: an installation resolved, and a later installation of the
\* same identifier has failed.
C3_Witness ==
    \E r \in Tasks : Rejected(r) /\ installedOk[task[r].id]

\* A snapshot with status `completed` is among those the callback got from
\* the last reporting step of call r.
CompletedReported(r) ==
    \E i \in 1..Len(hist[r].cbs) : hist[r].cbs[i].status = "completed"

\* C4: `completed` is reported, and the call resolves, only after this call's
\* catalog insert and both its flag writes have succeeded (row and flags are
\* then in place); when the insert or a flag write fails the call reports
\* `failed`, never `completed`, and rejects.
C4_SuccessOnlyAfterWrites ==
    \A r \in Tasks : Installing(r) =>
        LET t == task[r]
            h == hist[r] IN
        /\ (t.progress.status = "completed" \/ t.outcome = "resolved" \/ CompletedReported(r))
              => /\ h.wrote = {"row", "installed", "path"}
                 /\ hasRow(t.id) /\ isInstalled(t.id)
                 /\ getMushafPath(t.id) = Some(mushafDir(t.id))
        /\ h.raisedAt \in {"insertRow", "setInstalled", "setPath"}
              => /\ t.progress.status = "failed"
                 /\ ~CompletedReported(r)
                 /\ t.outcome /= "resolved"
                 /\ Finished(r) => t.outcome = "rejected"

\* C4 witness: a call has resolved and `completed` was its last snapshot.
C4_Witness ==
    \E r \in Tasks : Resolved(r) /\ LastCb(hist[r]).status = "completed"

\* C5 as stated: when an installation of an identifier that had no catalog
\* row and no flag at the call ends in `failed`, the catalog has no row for
\* it and the flag store neither of its flags.
C5_AsStated ==
    \A r \in Tasks :
        (Rejected(r) /\ ~hist[r].rowBefore /\ ~hist[r].flagsBefore) =>
            /\ ~hasRow(task[r].id)
            /\ storage[installedKey(task[r].id)] = Null
            /\ storage[pathKey(task[r].id)] = Null

\* Snapshots ps are in non-decreasing order of percentage.
NonDecreasing(ps) ==
    \A i \in 1..(Len(ps) - 1) : ps[i].progress <= ps[i + 1].progress

C7_OneTerminalCallback ==
    \A r \in Tasks : Installing(r) =>
        LET t == task[r]
            h == hist[r] IN
        /\ h.terminals <= 1 /\ ~h.afterTerminal
        /\ (~Finished(r) /\ h.terminals = 1) =>
              t.pc = "cleanup" /\ LastCb(h).status = "failed"
        /\ Finished(r) =>
              /\ h.terminals = 1
              /\ LastCb(h).status \in TerminalStatuses
              /\ t.outcome \in {"resolved", "rejected"}
              /\ t.outcome = "resolved" <=> LastCb(h).status = "completed"
              /\ t.outcome = "rejected" <=> LastCb(h).status = "failed"
              /\ t.outcome = "rejected" =>
                    /\ t.rejection /= Null
                    /\ LastCb(h).error = Some(Val(t.rejection).message)

\* C7 witness: the line-count check refused a page; `failed` was the one
\* terminal snapshot and the call rejected.
C7_Witness ==
    \E r \in Tasks :
        /\ Rejected(r) /\ hist[r].raisedAt = "countLines"
        /\ hist[r].terminals = 1 /\ LastCb(hist[r]).status = "failed"

NonTerminalStatuses == {"initializing", "downloading", "extracting", "verifying"}
StatusEdges ==
    {<<"initializing", "downloading">>, <<"downloading", "extracting">>,
     <<"extracting", "verifying">>, <<"verifying", "completed">>}
    \cup {<<st, "failed">> : st \in NonTerminalStatuses}

\* C8: the status of a progress record starts as `initializing` and changes
\* only along initializing -> downloading -> extracting -> verifying ->
\* completed, or from one of these four to `failed`; nothing leaves
\* `completed` or `failed`, and `paused` and `cancelled` are never set.
C8_StatusForward ==
    [][\A r \in Tasks : task'[r].op = "install" =>
          LET st == task[r].progress.status
              st2 == task'[r].progress.status IN
          IF Free(r) THEN st2 = "initializing"
          ELSE st2 = st \/ <<st, st2>> \in StatusEdges]_vars

\* C8 witness: `failed` entered from `initializing` (the root could not be
\* created).
C8_Witness ==
    \E r \in Tasks :
        /\ Installing(r) /\ task[r].progress.status = "failed"
        /\ hist[r].raisedAt = "mkdirRoot"

\* C9: when a step fails with error E and the removal of the root fails too,
\* the call still rejects with E and the failed snapshot carries E's message.
C9_CleanupFailureDoesNotMask ==
    \A r \in Tasks : (Rejected(r) /\ hist[r].cleanup = "failed") =>
        /\ task[r].rejection = hist[r].raised
        /\ task[r].progress.error = Some(Val(hist[r].raised).message)
        /\ LastCb(hist[r]).status = "failed"
        /\ LastCb(hist[r]).error = Some(Val(hist[r].raised).message)

\* C9 witness: the removal failed and the root is still there.
C9_Witness ==
    \E r \in Tasks :
        Rejected(r) /\ hist[r].cleanup = "failed" /\ fs[task[r].id].exists

StepsBeforeCountCheck ==
    {"mkdirRoot", "mkdirFonts", "downloadDb", "downloadCommon", "downloadFonts",
     "unzipCommon", "deleteCommonZip", "unzipFonts", "deleteFontsZip", "getInfo"}
StepsAfterCountCheck ==
    {"openLayoutDb", "countLines", "openMainDb", "insertRow", "setInstalled", "setPath"}

\* The number of .ttf files the fonts archive of id puts into fonts/pages/.
FontsServed(id) == Cardinality(remote[id].fonts)

\* Call r is an installation that has ended after its font-count check was
\* reached with a number of files other than pages_count.
EndedWithMiscount(r) ==
    /\ Installing(r) /\ Finished(r)
    /\ hist[r].raisedAt \notin StepsBeforeCountCheck
    /\ FontsServed(task[r].id) /= Mushaf(task[r].id).pages_count

\* The font-count check of call r raised, and not because readDirectoryAsync
\* rejected.
CountCheckRefused(r) ==
    /\ hist[r].raisedAt = "readDirectory"
    /\ ~IsPlatformErr(Val(hist[r].raised))

RowsOf(id) == {row \in catalog : row.id = id}

Deleting(r) == task[r].op = "delete"
DeleteResolved(r) == Deleting(r) /\ Finished(r) /\ task[r].outcome = "resolved"
DeleteRejected(r) == Deleting(r) /\ Finished(r) /\ task[r].outcome = "rejected"

\* C12: the catalog never holds two rows with the same identifier; once a
\* deleteMushaf(id) has resolved there is no row for id, so that an
\* installation called after the uninstall of an installed identifier is
\* never refused by the catalog, and when it resolves the catalog holds
\* exactly one row for the identifier, the one it inserted.
C12_OneRowPerIdentifier ==
    /\ \A id \in MushafIds : Cardinality(RowsOf(id)) <= 1
    /\ \A r \in Tasks : DeleteResolved(r) => RowsOf(task[r].id) = {}
    /\ \A r \in Tasks : (Installing(r) /\ hist[r].prev = "uninstall") =>
          /\ ~hist[r].rowBefore
          /\ hist[r].raised /= Some(ConstraintErr(task[r].id))
          /\ Resolved(r) =>
                /\ Cardinality(RowsOf(task[r].id)) = 1
                /\ "row" \in hist[r].wrote
                /\ \A row \in RowsOf(task[r].id) : row.local_path = <<"mushafs", row.id>>

\* C12 witness: install, deleteMushaf, install again: the second installation
\* has resolved.
C12_Witness ==
    \E r \in Tasks :
        /\ Resolved(r) /\ hist[r].prev = "uninstall"
        /\ Cardinality(RowsOf(task[r].id)) = 1

\* No downloadMushaf has been called for identifier id.
NeverInstalled(id) == \A r \in Tasks : id \notin hist[r].requested

\* What is held about identifier j: its root directory, its catalog rows and
\* its two flags.
IdState(j) == <<fs[j], RowsOf(j), storage[installedKey(j)], storage[pathKey(j)]>>
NothingOf(j) == IdState(j) = <<NoDir, {}, Null, Null>>

\* C13: a deleteMushaf(id) for an identifier that was never installed is not
\* refused for the absence of its root, row or flags (it rejects only when
\* one of its platform calls itself rejects); it leaves nothing of id, and no
\* step of it changes the root directory, the catalog rows or the flags of
\* another identifier.
C13_DeleteOfAbsent ==
    /\ [](\A r \in Tasks : (Deleting(r) /\ NeverInstalled(task[r].id)) =>
            /\ NothingOf(task[r].id)
            /\ Finished(r) => task[r].outcome \in {"resolved", "rejected"}
            /\ DeleteRejected(r) => IsPlatformErr(Val(task[r].rejection)))
    /\ [][\A r \in Tasks :
            (task'[r].op = "delete" /\ task'[r] /= task[r]
                /\ NeverInstalled(task'[r].id)) =>
                \A j \in MushafIds \ {task'[r].id} : IdState(j)' = IdState(j)]_vars

\* C13 witness: a deleteMushaf of a never-installed identifier has resolved
\* while another identifier is installed.
C13_Witness ==
    \E r \in Tasks :
        /\ DeleteResolved(r) /\ NeverInstalled(task[r].id)
        /\ \E j \in MushafIds \ {task[r].id} :
              installedOk[j] /\ hasRow(j) /\ isInstalled(j) /\ fs[j].exists

\* C14: once deleteMushaf(id) has resolved, the root of id does not exist,
\* the catalog has no row for id, isInstalled(id) is false and
\* getMushafPath(id) is null; a deleteMushaf(id) called again right after
\* finds nothing of id, is not refused for that, and leaves the same state.
C14_DeleteIdempotent ==
    \A r \in Tasks :
        /\ DeleteResolved(r) =>
              /\ ~fs[task[r].id].exists
              /\ RowsOf(task[r].id) = {}
              /\ ~isInstalled(task[r].id)
              /\ getMushafPath(task[r].id) = Null
              /\ NothingOf(task[r].id)
        /\ (Deleting(r) /\ hist[r].prev \in {"uninstall", "delete"}) =>
              /\ NothingOf(task[r].id)
              /\ DeleteRejected(r) => IsPlatformErr(Val(task[r].rejection))

\* C14 witness: an installed identifier was uninstalled, and a second
\* deleteMushaf of it has resolved.
C14_Witness ==
    \E r \in Tasks : DeleteResolved(r) /\ hist[r].prev = "uninstall"

\* Identifier id has neither flag in the flag store.
NoFlags(id) == storage[installedKey(id)] = Null /\ storage[pathKey(id)] = Null

\* The lookups answer "not installed" for id.
AnswersAbsent(id) == ~isInstalled(id) /\ getMushafPath(id) = Null

\* Installation r has failed without having found or written a flag.
FailedWithoutFlags(r) ==
    /\ Rejected(r) /\ ~hist[r].flagsBefore
    /\ hist[r].wrote \cap {"installed", "path"} = {}

\* C15: for an identifier with no flags in the flag store isInstalled is
\* false and getMushafPath is null; such are the identifiers never
\* installed, those whose deleteMushaf has resolved, and those whose
\* installation failed before its flag writes.
C15_QueriesAnswerAbsent ==
    /\ \A id \in MushafIds :
          /\ NoFlags(id) => AnswersAbsent(id)
          /\ NeverInstalled(id) => NoFlags(id) /\ AnswersAbsent(id)
    /\ \A r \in Tasks :
          (DeleteResolved(r) \/ FailedWithoutFlags(r)) =>
              NoFlags(task[r].id) /\ AnswersAbsent(task[r].id)

\* C15 witness: an installation failed at the catalog insert, and the
\* identifier has no flags.
C15_Witness ==
    \E r \in Tasks :
        /\ FailedWithoutFlags(r) /\ hist[r].raisedAt = "insertRow"
        /\ NoFlags(task[r].id) /\ AnswersAbsent(task[r].id)

\* The row of installed_mushafs an installation of id inserts, whatever its
\* installed_at.
OwnRow(row, id) ==
    /\ row.id = id
    /\ row.name = Mushaf(id).name /\ row.code = Mushaf(id).code
    /\ row.pages_count = Mushaf(id).pages_count
    /\ row.lines_per_page = Mushaf(id).lines_per_page
    /\ row.local_path = <<"mushafs", id>>

\* Two installations with distinct identifiers are or were in flight.
DistinctInstalls(a, b) ==
    /\ a /= b /\ Installing(a) /\ Installing(b)
    /\ task[a].id /= task[b].id

\* C16: with two installations of distinct identifiers interleaving at their
\* awaits, each one's callback gets snapshots of its own record only (its
\* mushaf_id, its state), in non-decreasing order of percentage, and when
\* both have resolved the catalog holds exactly two rows, one for each
\* identifier with its metadata and its root, and each identifier has its
\* own flags.
C16_ConcurrentInstallsIndependent ==
    /\ [](\A a, b \in Tasks : DistinctInstalls(a, b) =>
            /\ \A i \in 1..Len(hist[a].cbs) : hist[a].cbs[i].mushaf_id = task[a].id
            /\ hist[a].cbs /= <<>> => LastCb(hist[a]) = task[a].progress
            /\ (Resolved(a) /\ Resolved(b)) =>
                  /\ catalog = RowsOf(task[a].id) \cup RowsOf(task[b].id)
                  /\ Cardinality(catalog) = 2
                  /\ \A row \in RowsOf(task[a].id) : OwnRow(row, task[a].id)
                  /\ storage[installedKey(task[a].id)] = Some("true")
                  /\ storage[pathKey(task[a].id)] = Some(<<"mushafs", task[a].id>>)
                  /\ fs[task[a].id].exists)
    /\ [][\A a, b \in Tasks :
            (DistinctInstalls(a, b)' /\ hist'[a] /= hist[a] /\ hist'[a].cbs /= <<>>) =>
                /\ NonDecreasing(hist'[a].cbs)
                /\ (~Free(a) /\ hist[a].cbs /= <<>>)
                      => LastCb(hist[a]).progress <= hist'[a].cbs[1].progress]_vars

\* C16 witness: two installations of distinct identifiers, interleaved, have
\* both resolved.
C16_Witness ==
    \E a, b \in Tasks :
        /\ DistinctInstalls(a, b)
        /\ Resolved(a) /\ Resolved(b)
        /\ Cardinality(catalog) = 2

\* Call r has made a catalog or flag write and is at an await whose
\* continuation makes its next one.
BetweenWrites(r) ==
    /\ hist[r].wrote /= {}
    /\ \/ task[r].op = "install" /\ task[r].pc \in {"setInstalled", "setPath"}
       \/ task[r].op = "delete" /\ task[r].pc \in {"removeInstalled", "removePath"}

\* C17 as stated: while an operation on an identifier is between two of its
\* catalog and flag writes, no other operation on that identifier makes a
\* catalog or flag write.
C17_AsStated ==
    [][\A a, b \in Tasks :
          (a /= b /\ task[a].id = task[b].id /\ BetweenWrites(a)) =>
              hist'[b].wrote \subseteq hist[b].wrote]_vars

\* Call r is a downloadMushaf that has not settled.
InFlight(r) == Installing(r) /\ ~Finished(r)

\* C18 as stated: at no time are two downloadMushaf executions for the same
\* identifier in progress; a second request is rejected or coalesced.
C18_AsStated ==
    \A a, b \in Tasks :
        (a /= b /\ InFlight(a) /\ InFlight(b)) => task[a].id /= task[b].id

\* The percentage the record can have reached when the transfer of url ends.
ShareUpTo(url) ==
    CASE url = 1 -> dbProgress(Chunks) [] url = 2 -> commonProgress(Chunks)
      [] url = 3 -> fontsProgress(Chunks)

\* C19: when a transfer of an installation completes with no result or a
\* status other than 200, downloadFile throws there: the installation is
\* `failed` with the download error of that url, its only further step is
\* the removal of the root, it rejects with that error, and no later step
\* has run (no catalog or flag write, no `completed`, a percentage within
\* the share of that transfer).
C19_BadStatusFails ==
    /\ [](\A r \in Tasks : (Installing(r) /\ hist[r].badStatus /= 0) =>
            LET t == task[r]
                h == hist[r]
                e == DownloadErr(t.id, h.badStatus) IN
            /\ h.raisedAt = downloadStep(h.badStatus)
            /\ h.raised = Some(e)
            /\ t.progress.status = "failed"
            /\ t.progress.error = Some(e.message)
            /\ t.progress.progress <= ShareUpTo(h.badStatus)
            /\ t.pc \in {"cleanup", "done"}
            /\ h.wrote = {}
            /\ ~CompletedReported(r)
            /\ Finished(r) => t.outcome = "rejected" /\ t.rejection = Some(e))
    /\ [][\A r \in Tasks :
            (Installing(r) /\ hist[r].badStatus /= 0 /\ ~Finished(r)
                /\ task'[r] /= task[r]) =>
                /\ task[r].pc = "cleanup"
                /\ task'[r].pc = "done"
                /\ catalog' = catalog /\ storage' = storage]_vars

\* C19 witness: the third transfer completed with a status other than 200
\* after reporting a chunk, and the installation has rejected.
C19_Witness ==
    \E r \in Tasks :
        /\ Rejected(r) /\ hist[r].badStatus = 3
        /\ task[r].rejection = Some(DownloadErr(task[r].id, 3))
        /\ task[r].progress.progress > ShareUpTo(2)

\* C20: every snapshot the callback gets with status `completed` carries
\* percentage 100, and every snapshot with another status carries less than
\* 100; the same holds of the record between two callbacks.
C20_FullOnlyOnCompleted ==
    \A r \in Tasks : Installing(r) =>
        /\ \A i \in 1..Len(hist[r].cbs) :
              hist[r].cbs[i].status = "completed" <=> hist[r].cbs[i].progress = Pct(100)
        /\ \A i \in 1..Len(hist[r].cbs) : hist[r].cbs[i].progress <= Pct(100)
        /\ task[r].progress.status = "completed" <=> task[r].progress.progress = Pct(100)

\* C20 witness: `completed` was delivered, with 100, as the one terminal
\* snapshot of an installation.
C20_Witness ==
    \E r \in Tasks :
        /\ Installing(r) /\ hist[r].cbs /= <<>>
        /\ LastCb(hist[r]).status = "completed"
        /\ LastCb(hist[r]).progress = Pct(100)
        /\ hist[r].terminals = 1

\* The awaits of the try block of downloadMushaf, in the order of the code.
Pipeline ==
    <<"mkdirRoot", "mkdirFonts", "downloadDb", "downloadCommon", "downloadFonts",
      "unzipCommon", "deleteCommonZip", "unzipFonts", "deleteFontsZip", "getInfo",
      "readDirectory", "openLayoutDb", "countLines", "openMainDb", "insertRow",
      "setInstalled", "setPath">>
PipelineSteps == {Pipeline[i] : i \in 1..Len(Pipeline)}
\* The place of an await in that order.
PlaceOf(pc) == CHOOSE i \in 1..Len(Pipeline) : Pipeline[i] = pc

\* From one pending await to the next: the same await again (another file
\* probed, another page counted, a chunk reported), the one after it, the
\* removal of the root when it raised, and the end.
PipelineEdge(pc, pc2) ==
    \/ pc \in PipelineSteps /\ pc2 = pc
    \/ pc \in PipelineSteps /\ pc2 \in PipelineSteps /\ PlaceOf(pc2) = PlaceOf(pc) + 1
    \/ pc \in PipelineSteps /\ pc2 = "cleanup"
    \/ pc = "cleanup" /\ pc2 = "done"
    \/ pc = "setPath" /\ pc2 = "done"

\* Call r awaits the step at pc or a later one of the try block.
Reached(r, pc) ==
    task[r].pc \in PipelineSteps /\ PlaceOf(task[r].pc) >= PlaceOf(pc)

\* C21: an installation has one pending step at a time, and a step becomes
\* pending only when the one before it in the code has resolved: the second
\* transfer after the first, the third after the second, the extraction with
\* the three files there, the verification with both archives extracted and
\* deleted, the catalog and flag writes after both verifiers.
C21_StrictlySequential ==
    /\ [](\A r \in Tasks : Installing(r) =>
            LET d == fs[task[r].id] IN
            /\ task[r].pc \in PipelineSteps \cup {"cleanup", "done"}
            /\ Reached(r, "downloadCommon") => d.db /= Null
            /\ At(r, "downloadFonts") => d.commonZip /= Null
            /\ At(r, "unzipCommon") => d.commonZip /= Null /\ d.fontsZip /= Null
            /\ Reached(r, "getInfo") => d.commonZip = Null /\ d.fontsZip = Null
            /\ Reached(r, "openLayoutDb") =>
                  /\ \A i \in 1..NumCriticalFiles : criticalFileExists(d, Mushaf(task[r].id), i)
                  /\ fontCountOk(d, Mushaf(task[r].id))
            /\ Reached(r, "openMainDb") =>
                  \A p \in 1..PagesCount : ~lineCountRefused(p, Val(d.db)[p]))
    /\ [][\A r \in Tasks :
            (Installing(r) /\ ~Free(r) /\ task'[r].op = "install") =>
                PipelineEdge(task[r].pc, task'[r].pc)]_vars

\* C21 witness: an installation awaits its last write, every step before it
\* having resolved in turn.
C21_Witness ==
    \E r \in Tasks :
        At(r, "setPath") /\ hist[r].wrote = {"row", "installed"}

\* The five paths of the presence check in the order the claim gives them:
\* mushaf_layout.db, bismillah.ttf, surah_names.ttf, p1.ttf, p<pages_count>.ttf;
\* whether path i is there in directory tree d.
PathPresent(d, i) ==
    CASE i = 1 -> d.db /= Null
      [] i = 2 -> 1 \in d.common
      [] i = 3 -> 2 \in d.common
      [] i = 4 -> 1 \in d.pages
      [] i = 5 -> PagesCount \in d.pages
AllPathsPresent(d) == \A i \in 1..5 : PathPresent(d, i)

\* Installation r has raised and its root has not been removed yet.
JustRaised(r) == Installing(r) /\ task[r].pc = "cleanup"
\* What the check of r that raised has thrown (not a platform rejection).
Refusal(r) == Val(hist[r].raised).message

\* C22: verification probes the five paths in order and raises at the first
\* one missing, naming it; the font count is read only with the five paths
\* there and the line counts only with the font count matching; a check that
\* refuses is the first one, in the order presence, font count, line counts,
\* that the files fail.
C22_VerificationOrder ==
    \A r \in Tasks : Installing(r) =>
        LET d == fs[task[r].id]
            count == Cardinality(d.pages) IN
        /\ At(r, "getInfo") => \A j \in 1..(task[r].idx - 1) : PathPresent(d, j)
        /\ At(r, "readDirectory") => AllPathsPresent(d)
        /\ (At(r, "openLayoutDb") \/ At(r, "countLines")) =>
              AllPathsPresent(d) /\ count = PagesCount
        /\ (JustRaised(r) /\ Refusal(r)[1] = "Fichier manquant") =>
              /\ hist[r].raisedAt = "getInfo"
              /\ Refusal(r)[3] \in 1..5
              /\ ~PathPresent(d, Refusal(r)[3])
              /\ \A j \in 1..(Refusal(r)[3] - 1) : PathPresent(d, j)
        /\ (JustRaised(r) /\ Refusal(r)[1] = "Nombre de polices incorrect") =>
              /\ hist[r].raisedAt = "readDirectory"
              /\ AllPathsPresent(d)
              /\ count /= PagesCount
              /\ Refusal(r)[3] = count
        /\ (JustRaised(r) /\ IsLinesErr(Val(hist[r].raised))) =>
              /\ hist[r].raisedAt = "countLines"
              /\ AllPathsPresent(d) /\ count = PagesCount

\* C22 witness: bismillah.ttf is there, surah_names.ttf, p1.ttf and the last
\* page font are not, and the error names surah_names.ttf.
C22_Witness ==
    \E r \in Tasks :
        /\ JustRaised(r) /\ Refusal(r) = <<"Fichier manquant", task[r].id, 3>>
        /\ ~PathPresent(fs[task[r].id], 4) /\ ~PathPresent(fs[task[r].id], 5)

\* The callback of call r was called in the step just taken, which left the
\* call at the same await: a progress callback of the transfer awaited there.
TransferCallback(r) ==
    /\ task[r].op = "install" /\ task'[r].op = "install"
    /\ task[r].pc \in {"downloadDb", "downloadCommon", "downloadFonts"}
    /\ task'[r].pc = task[r].pc
    /\ hist'[r] /= hist[r]
\* Percentage pct (in 1/Chunks percent) is base + p * share for the fraction
\* p = w / Chunks of a transfer.
Weighted(pct, base, share, w) == pct * Chunks = Pct(base) * Chunks + Pct(share) * w

\* C23: the callbacks of a transfer carry p*10, 10 + p*5 and 15 + p*60 for
\* the fraction p of the database, the common fonts and the page fonts, within
\* 0..10, 10..15 and 15..75; `extracting` comes with 75, 80 or 95 and
\* `verifying` with 95; the first callback of a run is below 10; every
\* percentage is within 0..100.
C23_ProgressWeights ==
    /\ [](\A r \in Tasks : Installing(r) =>
            /\ (At(r, "mkdirRoot") \/ At(r, "mkdirFonts")) => hist[r].cbs = <<>>
            /\ \A i \in 1..Len(hist[r].cbs) :
                  LET c == hist[r].cbs[i] IN
                  /\ c.progress >= 0 /\ c.progress <= Pct(100)
                  /\ c.status = "downloading" => c.progress <= Pct(75)
                  /\ c.status = "extracting" => c.progress \in {Pct(75), Pct(80), Pct(95)}
                  /\ c.status = "verifying" => c.progress = Pct(95))
    /\ [][\A r \in Tasks :
            /\ (At(r, "mkdirFonts") /\ task'[r].pc = "downloadDb") =>
                  /\ Len(hist'[r].cbs) = 1
                  /\ hist'[r].cbs[1].progress < Pct(10)
            /\ TransferCallback(r) =>
                  LET pct == LastCb(hist'[r]).progress
                      w == written'[r] IN
                  /\ Len(hist'[r].cbs) = 1
                  /\ task[r].pc = "downloadDb" =>
                        Weighted(pct, 0, 10, w) /\ pct >= 0 /\ pct <= Pct(10)
                  /\ task[r].pc = "downloadCommon" =>
                        Weighted(pct, 10, 5, w) /\ pct >= Pct(10) /\ pct <= Pct(15)
                  /\ task[r].pc = "downloadFonts" =>
                        Weighted(pct, 15, 60, w) /\ pct >= Pct(15) /\ pct <= Pct(75)]_vars

\* C23 witness: the page fonts are under way, neither at the start nor at the
\* end, and the callback has got the percentage of that fraction.
C23_Witness ==
    \E r \in Tasks :
        /\ At(r, "downloadFonts") /\ written[r] > 0 /\ written[r] < Chunks
        /\ hist[r].cbs /= <<>>
        /\ Weighted(LastCb(hist[r]).progress, 15, 60, written[r])

\* The status of the progress record of call r is the one of the last
\* snapshot its callback got.
StatusDelivered(r) ==
    hist[r].cbs /= <<>> /\ LastCb(hist[r]).status = task[r].progress.status

CommonZipDeleted(id) == fs[id].commonZip /= Null /\ fs'[id].commonZip = Null
FontsZipDeleted(id) == fs[id].fontsZip /= Null /\ fs'[id].fontsZip = Null
\* The step is the one of an installation of id that leaves await pc for pc2.
StepOf(id, pc, pc2) ==
    \E r \in Tasks : At(r, pc) /\ task[r].id = id /\ task'[r].pc = pc2

\* C25: an archive is deleted by the step that follows its own extraction,
\* which has put its files in place, and otherwise only with the whole root; an
\* extraction that fails leaves its archive where it is; once an installation
\* has completed, its root holds neither archive.
C25_ArchivesDeletedAfterExtraction ==
    /\ [](\A r \in Tasks : Installing(r) => LET d == fs[task[r].id] IN
            /\ At(r, "deleteCommonZip") =>
                  d.commonZip /= Null /\ Val(d.commonZip) \subseteq d.common
            /\ At(r, "deleteFontsZip") =>
                  d.fontsZip /= Null /\ Val(d.fontsZip) \subseteq d.pages
            /\ (JustRaised(r) /\ hist[r].raisedAt = "unzipCommon") =>
                  d.commonZip /= Null /\ d.fontsZip /= Null
            /\ (JustRaised(r) /\ hist[r].raisedAt = "unzipFonts") => d.fontsZip /= Null
            /\ Resolved(r) => d.exists /\ d.commonZip = Null /\ d.fontsZip = Null)
    /\ [][\A id \in MushafIds :
            /\ CommonZipDeleted(id) =>
                  StepOf(id, "deleteCommonZip", "unzipFonts") \/ fs'[id] = NoDir
            /\ FontsZipDeleted(id) =>
                  StepOf(id, "deleteFontsZip", "getInfo") \/ fs'[id] = NoDir]_vars

\* C25 witness: an installation has completed, the fonts of both archives are
\* in place and the archives are gone.
C25_Witness ==
    \E r \in Tasks : LET d == fs[task[r].id] IN
        /\ Resolved(r) /\ d.common = AllCommon /\ d.pages = AllPages
        /\ d.commonZip = Null /\ d.fontsZip = Null

\* No installation and no removal of id is under way.
Quiet(id) == \A r \in Tasks : task[r].id = id => Free(r)

\* C26 as stated: whenever nothing about id is under way, after operations
\* that failed part-way too, isInstalled(id) tells whether the catalog has a
\* row for id, and getMushafPath(id) is then the local_path of that row.
C26_AsStated ==
    \A id \in MushafIds : Quiet(id) =>
        /\ isInstalled(id) <=> hasRow(id)
        /\ \A row \in RowsOf(id) : getMushafPath(id) = Some(row.local_path)

\* The root of id is there with its layout database and its fonts.
RootIntact(id) == fs[id].exists /\ fs[id].db /= Null /\ fs[id].fonts

\* C27 as stated: an installation of id has resolved and no deleteMushaf(id)
\* was called since; whenever nothing about id is under way, a later
\* installation that failed included, isInstalled(id) comes with the root, its
\* layout database and its fonts.
C27_AsStated ==
    \A id \in MushafIds :
        (Quiet(id) /\ installedOk[id] /\ isInstalled(id)) => RootIntact(id)

\* The downloaded_bytes of snapshots ps never go down.
BytesNonDecreasing(ps) ==
    \A i, j \in 1..Len(ps) : i <= j => ps[i].downloaded_bytes <= ps[j].downloaded_bytes

\* C28 as stated: the downloaded_bytes the callback of one installation gets
\* never go down from one snapshot to the next, never exceed total_bytes, and
\* are total_bytes in the `completed` snapshot.
C28_AsStated ==
    /\ [](\A r \in Tasks : Installing(r) =>
            \A i \in 1..Len(hist[r].cbs) : LET c == hist[r].cbs[i] IN
                /\ c.downloaded_bytes <= c.total_bytes
                /\ c.status = "completed" => c.downloaded_bytes = c.total_bytes)
    /\ [][\A r \in Tasks :
            (task'[r].op = "install" /\ hist'[r] /= hist[r] /\ hist'[r].cbs /= <<>>) =>
                /\ BytesNonDecreasing(hist'[r].cbs)
                /\ (~Free(r) /\ hist[r].cbs /= <<>>) =>
                      LastCb(hist[r]).downloaded_bytes <= hist'[r].cbs[1].downloaded_bytes]_vars

\* What MushafPageRenderer renders: the spinner while loading, else the
\* error if there is one, else the html.
Shown ==
    IF pageRenderer.loading THEN "spinner"
    ELSE IF pageRenderer.error /= Null THEN "error" ELSE "page"

\* C29 as stated: the page that MushafPageRenderer shows is the one last
\* asked for, whatever fetch of an earlier page resolves late.
C29_AsStated ==
    Shown = "page" =>
        /\ pageRenderer.htmlContent /= Null
        /\ Val(pageRenderer.htmlContent)[1] = readerScreen.currentPage

\* C30 as stated: currentPage is within 1..TOTAL_PAGES whatever the next,
\* previous, go-to, home and swipe handlers are given.
C30_AsStated == readerScreen.currentPage \in 1..TOTAL_PAGES

============================================================================
